---- MODULE Spec2Model ----
(***************************************************************************)
(* errclose: Close and Closef (src/errclose.go), which close a resource    *)
(* and merge the close error into the error a caller's named return value  *)
(* holds.                                                                   *)
(*                                                                          *)
(* An error value is a record [kind, id, msg, errs]: kind is its dynamic    *)
(* type, id tells two errors.New values with the same text apart, msg is    *)
(* what Error() returns and errs is what Unwrap() returns.  An error        *)
(* variable is an interface value of two machine words, the type word       *)
(* (tab) and the data word (data); it is read and written word by word,     *)
(* which is what a second goroutine can observe.                            *)
(***************************************************************************)
EXTENDS Naturals, Sequences, FiniteSets

VARIABLES
    pc,                  \* p -> "idle", "format", "load", "store", "done", "panic", "fault"
    kind,                \* p -> "none", "Close", "Closef": the function invocation p runs
    resource,            \* p -> the mockFile invocation p closes
    returnedErr,         \* p -> the pointer argument: "nil" or the name of an error variable
    slots,               \* error variable -> interface value [tab, data]
    resourceName,        \* p -> Close's argument, Closef's local
    resourceNameFormat,  \* p -> Closef's format argument
    formatArgs,          \* p -> Closef's variadic arguments
    closeErr,            \* p -> the local closeErr
    currentReturnedErr,  \* p -> the local currentReturnedErr, word by word
    loaded,              \* p -> the words of *returnedErr read so far
    stored,              \* p -> the words of *returnedErr written so far
    sprintfCalls,        \* p -> how often fmt.Sprintf formatted the resource name
    before,              \* p -> what the error variable held when p was invoked
    initialErr,          \* what the error variables held before the first invocation
    hist,                \* the invocations whose release failed, in invocation order
    overlapped,          \* whether two read-modify-writes of one variable overlapped
    raced                \* the pairs {p, q} that had both read *returnedErr before either wrote

vars == <<pc, kind, resource, returnedErr, slots, resourceName, resourceNameFormat,
          formatArgs, closeErr, currentReturnedErr, loaded, stored, sprintfCalls,
          before, initialErr, hist, overlapped, raced>>

\* Number of deferred invocations that run one after the other.
MaxCalls == 3

\* Number of goroutines that invoke Close/Closef on one error variable.
MaxThreads == 2

(***************************************************************************)
(* Error values                                                            *)
(***************************************************************************)

Err(k, i, m, e) == [kind |-> k, id |-> i, msg |-> m, errs |-> e]

\* The nil error.
Nil == Err("nil", 0, "", <<>>)

\* errors.New(msg); id is the identity of the pointer it returns.
errorString(i, m) == Err("errorString", i, m, <<>>)

errFallibleOperation == errorString(1, "operation failed")

\* openFileWithCloseError's closeError: a fresh errors.New per file.
closeError(p) == errorString(p + 1, "close error")

\* A nil pointer of dynamic type k in a non-nil interface value.
NilPtr(k) == Err(k, 0, "<nil>", <<>>)

Words == {"tab", "data"}

Iface(e) == [tab |-> e.kind, data |-> e]

NilIface == Iface(Nil)

\* currentReturnedErr != nil: an interface value is nil when its type word is.
IfaceIsNil(v) == v.tab = "nil"

\* A type word and a data word that belong to values of two different
\* dynamic types: using the value is a memory error.
Confused(v) == v.tab /= "nil" /\ v.data /= Nil /\ v.tab /= v.data.kind

\* The error an interface value denotes.
Value(v) ==
    IF v.tab = "nil" THEN Nil
    ELSE IF v.data = Nil THEN NilPtr(v.tab)
    ELSE v.data

\* errors.Is(err, target): err's tree, walked through Unwrap, holds target.
RECURSIVE Is(_, _)
Is(err, target) ==
    \/ err = target
    \/ \E i \in 1..Len(err.errs) : Is(err.errs[i], target)

(***************************************************************************)
(* Resources                                                               *)
(***************************************************************************)

mockFile(e) == [closeWasCalled |-> FALSE, closeCalls |-> 0, closeError |-> e]

openFileWithCloseError(p) == mockFile(closeError(p))

openFileWithoutCloseError == mockFile(Nil)

\* (file *mockFile).Close(), without its return value.
MockClose(file) ==
    [file EXCEPT !.closeWasCalled = TRUE, !.closeCalls = @ + 1]

(***************************************************************************)
(* fmt.Sprintf and fmt.Errorf                                              *)
(*                                                                          *)
(* A format is a sequence of tokens: a verb ("%s", "%v", "%w") or literal  *)
(* text.  An argument is a string, an error, or a value whose String       *)
(* method reports the state of the resource being closed.                   *)
(***************************************************************************)

StrArg(s) == [t |-> "str", s |-> s, e |-> Nil]

ErrArg(e) == [t |-> "err", s |-> "", e |-> e]

\* The resource itself, with a String method that tells whether it is open.
StringerArg == [t |-> "stringer", s |-> "", e |-> Nil]

IsVerb(tok) == tok \in {"%s", "%v", "%w"}

\* The verb's letter, as fmt prints it in "%!s(MISSING)".
VerbChar(verb) == CASE verb = "%s" -> "s" [] verb = "%v" -> "v" [] OTHER -> "w"

\* What one verb prints for one operand; res is the resource as it is when
\* the formatting runs.
FormatArg(verb, a, res) ==
    CASE a.t = "str" ->
           IF verb = "%w" THEN "%!w(string=" \o a.s \o ")" ELSE a.s
      [] a.t = "stringer" ->
           IF verb = "%w" THEN "%!w(*errclose_test.mockFile)"
           ELSE IF res.closeWasCalled THEN "closed file" ELSE "open file"
      [] OTHER ->
           IF a.e = Nil THEN "%!" \o VerbChar(verb) \o "(<nil>)" ELSE a.e.msg

RECURSIVE ExtraArgs(_, _)
ExtraArgs(args, res) ==
    IF args = <<>> THEN ""
    ELSE (IF Head(args).t = "str" THEN "string=" ELSE "*errclose_test.mockFile=")
         \o FormatArg("%v", Head(args), res)
         \o (IF Tail(args) = <<>> THEN "" ELSE ", ")
         \o ExtraArgs(Tail(args), res)

RECURSIVE Sprintf(_, _, _)
Sprintf(format, args, res) ==
    IF format = <<>>
    THEN IF args = <<>> THEN "" ELSE "%!(EXTRA " \o ExtraArgs(args, res) \o ")"
    ELSE IF IsVerb(Head(format))
    THEN IF args = <<>>
         THEN "%!" \o VerbChar(Head(format)) \o "(MISSING)"
              \o Sprintf(Tail(format), args, res)
         ELSE FormatArg(Head(format), Head(args), res)
              \o Sprintf(Tail(format), Tail(args), res)
    ELSE Head(format) \o Sprintf(Tail(format), args, res)

\* The operands of the %w verbs that are errors, in operand order.
RECURSIVE WrappedErrs(_, _)
WrappedErrs(format, args) ==
    IF format = <<>> \/ args = <<>> THEN <<>>
    ELSE IF IsVerb(Head(format))
    THEN (IF Head(format) = "%w" /\ Head(args).t = "err" /\ Head(args).e /= Nil
          THEN <<Head(args).e>> ELSE <<>>)
         \o WrappedErrs(Tail(format), Tail(args))
    ELSE WrappedErrs(Tail(format), args)

\* fmt.Errorf: no %w gives an errorString, one a wrapError, more a wrapErrors.
\* None of its operands here reads a resource's state.
Errorf(format, args) ==
    LET msg  == Sprintf(format, args, openFileWithoutCloseError)
        errs == WrappedErrs(format, args)
    IN  Err(CASE Len(errs) = 0 -> "errorString"
              [] Len(errs) = 1 -> "wrapError"
              [] OTHER -> "wrapErrors",
            0, msg, errs)

(***************************************************************************)
(* Close and Closef                                                        *)
(***************************************************************************)

\* The nil check inverted: returns on a failure, goes on without one.
CloseErrIsNil_Inverted(e) == e /= Nil

\* closeErr == nil (errclose.go:57 and :127).
CloseErrIsNil(e) == e = Nil

\* Close's else branch with %v for the close error: the text is the same,
\* the close error is not wrapped.
CloseMerge_NilBranchUnwrapped(cur, name, cerr) ==
    IF ~IfaceIsNil(cur)
    THEN Errorf(<<"%w", " (and failed to close ", "%s", ": ", "%w", ")">>,
                <<ErrArg(Value(cur)), StrArg(name), ErrArg(cerr)>>)
    ELSE Errorf(<<"failed to close ", "%s", ": ", "%v">>,
                <<StrArg(name), ErrArg(cerr)>>)

\* Close's then branch with the two errors in each other's place.
CloseMerge_SwappedErrors(cur, name, cerr) ==
    IF ~IfaceIsNil(cur)
    THEN Errorf(<<"%w", " (and failed to close ", "%s", ": ", "%w", ")">>,
                <<ErrArg(cerr), StrArg(name), ErrArg(Value(cur))>>)
    ELSE Errorf(<<"failed to close ", "%s", ": ", "%w">>,
                <<StrArg(name), ErrArg(cerr)>>)

\* Close's then branch with %v for the existing error, as one wrote it when
\* fmt.Errorf took a single %w.
CloseMerge_ExistingUnwrapped(cur, name, cerr) ==
    IF ~IfaceIsNil(cur)
    THEN Errorf(<<"%v", " (and failed to close ", "%s", ": ", "%w", ")">>,
                <<ErrArg(Value(cur)), StrArg(name), ErrArg(cerr)>>)
    ELSE Errorf(<<"failed to close ", "%s", ": ", "%w">>,
                <<StrArg(name), ErrArg(cerr)>>)

\* Close's then branch with %v for the close error.
CloseMerge_CloseErrUnwrapped(cur, name, cerr) ==
    IF ~IfaceIsNil(cur)
    THEN Errorf(<<"%w", " (and failed to close ", "%s", ": ", "%v", ")">>,
                <<ErrArg(Value(cur)), StrArg(name), ErrArg(cerr)>>)
    ELSE Errorf(<<"failed to close ", "%s", ": ", "%w">>,
                <<StrArg(name), ErrArg(cerr)>>)

\* Close's if/else (errclose.go:62-71): the error assigned to *returnedErr.
CloseMerge(cur, name, cerr) ==
    IF ~IfaceIsNil(cur)
    THEN Errorf(<<"%w", " (and failed to close ", "%s", ": ", "%w", ")">>,
                <<ErrArg(Value(cur)), StrArg(name), ErrArg(cerr)>>)
    ELSE Errorf(<<"failed to close ", "%s", ": ", "%w">>,
                <<StrArg(name), ErrArg(cerr)>>)

\* Closef without the then branch: the close error replaces the existing one.
ClosefMerge_Overwrites(cur, name, cerr) ==
    Errorf(<<"failed to close ", "%s", ": ", "%w">>, <<StrArg(name), ErrArg(cerr)>>)

\* Closef's if/else (errclose.go:134-143).
ClosefMerge(cur, name, cerr) ==
    IF ~IfaceIsNil(cur)
    THEN Errorf(<<"%w", " (and failed to close ", "%s", ": ", "%w", ")">>,
                <<ErrArg(Value(cur)), StrArg(name), ErrArg(cerr)>>)
    ELSE Errorf(<<"failed to close ", "%s", ": ", "%w">>,
                <<StrArg(name), ErrArg(cerr)>>)

\* *ptr as the caller sees it; a nil pointer refers to no variable.
Deref(ptr) == IF ptr = "nil" THEN NilIface ELSE slots[ptr]

\* Invocation q is between its first read and its last write of *returnedErr.
InReadModifyWrite(q) ==
    \/ pc[q] = "load" /\ loaded[q] /= {}
    \/ pc[q] = "store"

\* The resource is left open when *returnedErr already holds a failure.
Release_SkipsCloseAfterFailure(p, fn, res, next) ==
    /\ pc[p] = "idle"
    /\ kind' = [kind EXCEPT ![p] = fn]
    /\ before' = [before EXCEPT ![p] = Deref(returnedErr[p])]
    /\ IF ~IfaceIsNil(Deref(returnedErr[p]))
       THEN /\ resource' = [resource EXCEPT ![p] = res]
            /\ closeErr' = [closeErr EXCEPT ![p] = Nil]
            /\ pc' = [pc EXCEPT ![p] = "done"]
            /\ hist' = hist
       ELSE /\ resource' = [resource EXCEPT ![p] = MockClose(res)]
            /\ closeErr' = [closeErr EXCEPT ![p] = res.closeError]
            /\ pc' = [pc EXCEPT ![p] = IF res.closeError = Nil THEN "done" ELSE next]
            /\ hist' = IF res.closeError = Nil THEN hist ELSE Append(hist, p)

\* *returnedErr is read before resource.Close() is called.
Release_DerefBeforeClose(p, fn, res, next) ==
    /\ pc[p] = "idle"
    /\ kind' = [kind EXCEPT ![p] = fn]
    /\ before' = [before EXCEPT ![p] = Deref(returnedErr[p])]
    /\ IF returnedErr[p] = "nil"
       THEN /\ resource' = [resource EXCEPT ![p] = res]
            /\ closeErr' = closeErr
            /\ pc' = [pc EXCEPT ![p] = "panic"]
            /\ hist' = hist
       ELSE /\ resource' = [resource EXCEPT ![p] = MockClose(res)]
            /\ closeErr' = [closeErr EXCEPT ![p] = res.closeError]
            /\ pc' = [pc EXCEPT ![p] = IF res.closeError = Nil THEN "done" ELSE next]
            /\ hist' = IF res.closeError = Nil THEN hist ELSE Append(hist, p)

\* resource.Close() and the early return on a nil close error, as the first
\* step of either function (errclose.go:56-59 and :126-129).
Release(p, fn, res, next) ==
    /\ pc[p] = "idle"
    /\ kind' = [kind EXCEPT ![p] = fn]
    /\ resource' = [resource EXCEPT ![p] = MockClose(res)]
    /\ closeErr' = [closeErr EXCEPT ![p] = res.closeError]
    /\ pc' = [pc EXCEPT ![p] = IF CloseErrIsNil(res.closeError) THEN "done" ELSE next]
    /\ before' = [before EXCEPT ![p] = Deref(returnedErr[p])]
    /\ hist' = IF res.closeError = Nil THEN hist ELSE Append(hist, p)

\* Close(resource, returnedErr, resourceName) up to its return or its read
\* of *returnedErr.
Close(p, res, name) ==
    /\ Release(p, "Close", res, "load")
    /\ resourceName' = [resourceName EXCEPT ![p] = name]
    /\ UNCHANGED <<returnedErr, slots, resourceNameFormat, formatArgs,
                   currentReturnedErr, loaded, stored, sprintfCalls, initialErr,
                   overlapped, raced>>

\* Closef that formats the resource name before it closes the resource.
Closef_FormatsFirst(p, res, format, args) ==
    /\ Release(p, "Closef", res, "load")
    /\ resourceNameFormat' = [resourceNameFormat EXCEPT ![p] = format]
    /\ formatArgs' = [formatArgs EXCEPT ![p] = args]
    /\ resourceName' = [resourceName EXCEPT ![p] = Sprintf(format, args, res)]
    /\ sprintfCalls' = [sprintfCalls EXCEPT ![p] = @ + 1]
    /\ UNCHANGED <<returnedErr, slots, currentReturnedErr, loaded, stored,
                   initialErr, overlapped, raced>>

\* Closef(resource, returnedErr, resourceNameFormat, formatArgs...) up to its
\* return or its call of fmt.Sprintf.
Closef(p, res, format, args) ==
    /\ Release(p, "Closef", res, "format")
    /\ resourceNameFormat' = [resourceNameFormat EXCEPT ![p] = format]
    /\ formatArgs' = [formatArgs EXCEPT ![p] = args]
    /\ UNCHANGED <<returnedErr, slots, resourceName, currentReturnedErr, loaded,
                   stored, sprintfCalls, initialErr, overlapped, raced>>

\* fmt.Sprintf(resourceNameFormat) without the arguments.
ClosefFormat_DropsArgs(p) ==
    /\ pc[p] = "format"
    /\ resourceName' = [resourceName EXCEPT ![p] =
           Sprintf(resourceNameFormat[p], <<>>, resource[p])]
    /\ sprintfCalls' = [sprintfCalls EXCEPT ![p] = @ + 1]
    /\ pc' = [pc EXCEPT ![p] = "load"]
    /\ UNCHANGED <<kind, resource, returnedErr, slots, resourceNameFormat, formatArgs,
                   closeErr, currentReturnedErr, loaded, stored, before, initialErr,
                   hist, overlapped, raced>>

\* resourceName := fmt.Sprintf(resourceNameFormat, formatArgs...)
ClosefFormat(p) ==
    /\ pc[p] = "format"
    /\ resourceName' = [resourceName EXCEPT ![p] =
           Sprintf(resourceNameFormat[p], formatArgs[p], resource[p])]
    /\ sprintfCalls' = [sprintfCalls EXCEPT ![p] = @ + 1]
    /\ pc' = [pc EXCEPT ![p] = "load"]
    /\ UNCHANGED <<kind, resource, returnedErr, slots, resourceNameFormat, formatArgs,
                   closeErr, currentReturnedErr, loaded, stored, before, initialErr,
                   hist, overlapped, raced>>

\* currentReturnedErr := *returnedErr, one word of the interface value per
\* step; a nil returnedErr makes the read panic.
Load(p, fn, w) ==
    /\ pc[p] = "load"
    /\ kind[p] = fn
    /\ w \notin loaded[p]
    /\ IF returnedErr[p] = "nil"
       THEN /\ pc' = [pc EXCEPT ![p] = "panic"]
            /\ UNCHANGED <<currentReturnedErr, loaded, overlapped, raced>>
       ELSE /\ currentReturnedErr' = [currentReturnedErr EXCEPT ![p][w] =
                                          slots[returnedErr[p]][w]]
            /\ loaded' = [loaded EXCEPT ![p] = @ \cup {w}]
            /\ pc' = [pc EXCEPT ![p] = IF loaded[p] \cup {w} = Words
                                       THEN "store" ELSE "load"]
            /\ overlapped' =
                   (\/ overlapped
                    \/ \E q \in DOMAIN pc \ {p} :
                          /\ returnedErr[q] = returnedErr[p]
                          /\ InReadModifyWrite(q))
            /\ raced' =
                   IF loaded[p] \cup {w} /= Words THEN raced
                   ELSE raced \cup {{p, q} : q \in {r \in DOMAIN pc \ {p} :
                                        /\ returnedErr[r] = returnedErr[p]
                                        /\ pc[r] = "store"
                                        /\ stored[r] = {}}}
    /\ UNCHANGED <<kind, resource, returnedErr, slots, resourceName,
                   resourceNameFormat, formatArgs, closeErr, stored, sprintfCalls,
                   before, initialErr, hist>>

CloseLoad(p, w) == Load(p, "Close", w)

ClosefLoad(p, w) == Load(p, "Closef", w)

\* *returnedErr = fmt.Errorf(...), one word of the interface value per step.
\* A type word and a data word read from two different values make the
\* program fault when fmt.Errorf calls the value's Error method.
Store(p, fn, w, new) ==
    /\ pc[p] = "store"
    /\ kind[p] = fn
    /\ w \notin stored[p]
    /\ IF Confused(currentReturnedErr[p])
       THEN /\ pc' = [pc EXCEPT ![p] = "fault"]
            /\ UNCHANGED <<slots, stored>>
       ELSE /\ slots' = [slots EXCEPT ![returnedErr[p]][w] = Iface(new)[w]]
            /\ stored' = [stored EXCEPT ![p] = @ \cup {w}]
            /\ pc' = [pc EXCEPT ![p] = IF stored[p] \cup {w} = Words
                                       THEN "done" ELSE "store"]
    /\ UNCHANGED <<kind, resource, returnedErr, resourceName, resourceNameFormat,
                   formatArgs, closeErr, currentReturnedErr, loaded, sprintfCalls,
                   before, initialErr, hist, overlapped, raced>>

CloseStore(p, w) ==
    Store(p, "Close", w, CloseMerge(currentReturnedErr[p], resourceName[p], closeErr[p]))

ClosefStore(p, w) ==
    Store(p, "Closef", w, ClosefMerge(currentReturnedErr[p], resourceName[p], closeErr[p]))

(***************************************************************************)
(* Callers                                                                 *)
(***************************************************************************)

Finished == {"done", "panic", "fault"}

\* No invocation is under way.
Quiescent == \A p \in DOMAIN pc : pc[p] \in Finished \cup {"idle"}

\* The resources a caller closes: the tests' two mock files.
Resources(p) == {openFileWithoutCloseError, openFileWithCloseError(p)}

Names == {"file", "db"}

\* TestClosef's format and argument, and a caller that names the resource by
\* the resource itself.
Formats == {<<"file at path ", "%s">>}

ArgLists == {<<StrArg("/example/path")>>, <<StringerArg>>}

ErrorVariables == {NilIface, Iface(errFallibleOperation)}

\* The state before the first of the invocations procs, each given the
\* pointer ptrs[p]; every error variable holds e.
InitWith(procs, ptrs, vs, e) ==
    /\ pc = [p \in procs |-> "idle"]
    /\ kind = [p \in procs |-> "none"]
    /\ resource = [p \in procs |-> openFileWithoutCloseError]
    /\ returnedErr = ptrs
    /\ slots = [v \in vs |-> e]
    /\ resourceName = [p \in procs |-> ""]
    /\ resourceNameFormat = [p \in procs |-> <<>>]
    /\ formatArgs = [p \in procs |-> <<>>]
    /\ closeErr = [p \in procs |-> Nil]
    /\ currentReturnedErr = [p \in procs |-> NilIface]
    /\ loaded = [p \in procs |-> {}]
    /\ stored = [p \in procs |-> {}]
    /\ sprintfCalls = [p \in procs |-> 0]
    /\ before = [p \in procs |-> NilIface]
    /\ initialErr = e
    /\ hist = <<>>
    /\ overlapped = FALSE
    /\ raced = {}

\* A function with a named error return, returnedErr, that defers MaxCalls
\* invocations of Close or Closef on &returnedErr (or on a nil pointer); the
\* deferred calls run one after the other as the function returns.
Init ==
    \E ptr \in {"nil", "returnedErr"}, e \in ErrorVariables :
        InitWith(1..MaxCalls, [p \in 1..MaxCalls |-> ptr], {"returnedErr"}, e)

\* The deferred calls before p have returned or panicked.
Deferred(p) == \A q \in 1..(p - 1) : pc[q] \in Finished

\* What the invocations do after resource.Close() returned a failure.
Steps ==
    \/ \E p \in DOMAIN pc : ClosefFormat(p)
    \/ \E p \in DOMAIN pc, w \in Words : CloseLoad(p, w)
    \/ \E p \in DOMAIN pc, w \in Words : ClosefLoad(p, w)
    \/ \E p \in DOMAIN pc, w \in Words : CloseStore(p, w)
    \/ \E p \in DOMAIN pc, w \in Words : ClosefStore(p, w)

Next ==
    \/ \E p \in DOMAIN pc : \E res \in Resources(p), name \in Names :
           Deferred(p) /\ Close(p, res, name)
    \/ \E p \in DOMAIN pc : \E res \in Resources(p), format \in Formats, args \in ArgLists :
           Deferred(p) /\ Closef(p, res, format, args)
    \/ Steps

Spec == Init /\ [][Next]_vars

(***************************************************************************)
(* Goroutines that share one error variable                                *)
(***************************************************************************)

\* MaxThreads goroutines, each invoking Close or Closef once on the same
\* &returnedErr, with nothing that orders them.
InitConc ==
    \E e \in ErrorVariables :
        InitWith(1..MaxThreads, [p \in 1..MaxThreads |-> "returnedErr"],
                 {"returnedErr"}, e)

\* The goroutines are numbered in the order in which they call.
Called(p) == \A q \in 1..(p - 1) : pc[q] /= "idle"

NextConc ==
    \/ \E p \in DOMAIN pc : \E res \in Resources(p) :
           Called(p) /\ Close(p, res, "file")
    \/ \E p \in DOMAIN pc : \E res \in Resources(p) :
           Called(p) /\ Closef(p, res, <<"file at path ", "%s">>, <<StrArg("/example/path")>>)
    \/ Steps

SpecConc == InitConc /\ [][NextConc]_vars

(***************************************************************************)
(* Closef beside Close with the name formatted by the caller               *)
(***************************************************************************)

EquivFormats == {<<"file at path ", "%s">>, <<"conn">>}

EquivArgLists == {<<>>, <<StrArg("/example/path")>>, <<StringerArg>>}

\* Invocation 2 is Closef(file, &errF, format, args...); invocation 1 is
\* Close(file, &errC, fmt.Sprintf(format, args...)) on a file and an error
\* variable in the same state.
InitEquiv ==
    \E ptrs \in {[p \in {1, 2} |-> "nil"], <<"errC", "errF">>}, e \in ErrorVariables :
        InitWith({1, 2}, ptrs, {"errC", "errF"}, e)

NextEquiv ==
    \/ \E res \in Resources(2), format \in EquivFormats, args \in EquivArgLists :
           Closef(2, res, format, args)
    \/ /\ pc[2] /= "idle"
       /\ LET file == mockFile(resource[2].closeError)
          IN  Close(1, file, Sprintf(resourceNameFormat[2], formatArgs[2], file))
    \/ Steps

SpecEquiv == InitEquiv /\ [][NextEquiv]_vars

(***************************************************************************)
(* Properties of the deferred calls (Spec)                                 *)
(***************************************************************************)

\* The caller's named return value.
Slot == slots["returnedErr"]

HasSlot(p) == returnedErr[p] /= "nil"

Coherent(v) == v.tab = v.data.kind

\* p is the invocation that ran last.
Latest(p) == pc[p] /= "idle" /\ \A q \in DOMAIN pc : q > p => pc[q] = "idle"

\* C1: when resource.Close returns no failure, Close and Closef return with
\* the outcome reference exactly as it was when they were invoked, whether it
\* was nil or held a failure.
C1_SuccessLeavesOutcomeUnchanged ==
    \A p \in DOMAIN pc :
        (Latest(p) /\ pc[p] \in Finished /\ closeErr[p] = Nil)
            => /\ pc[p] = "done"
               /\ Deref(returnedErr[p]) = before[p]

C1_Witness ==
    \E p \in DOMAIN pc :
        /\ Latest(p) /\ pc[p] = "done" /\ closeErr[p] = Nil
        /\ HasSlot(p) /\ ~IfaceIsNil(before[p]) /\ Slot = before[p]

\* C2: every invocation of Close or Closef has called resource.Close exactly
\* once from its first step on, whatever the outcome reference held and
\* whatever the release returned.
C2_ReleaseCalledExactlyOnce ==
    \A p \in DOMAIN pc :
        /\ pc[p] = "idle" => resource[p].closeCalls = 0
        /\ pc[p] /= "idle" => resource[p].closeCalls = 1 /\ resource[p].closeWasCalled

C2_Witness ==
    \E p, q \in DOMAIN pc :
        /\ pc[p] = "done" /\ kind[p] = "Close" /\ closeErr[p] /= Nil
        /\ HasSlot(p) /\ ~IfaceIsNil(before[p]) /\ resource[p].closeCalls = 1
        /\ pc[q] = "done" /\ kind[q] = "Closef" /\ closeErr[q] = Nil
        /\ resource[q].closeCalls = 1

\* C3: Close with a failing release R on a nil outcome leaves a failure whose
\* message is "failed to close <name>: <R message>" and for which errors.Is
\* finds R.
C3_CloseOnNilOutcome ==
    \A p \in DOMAIN pc :
        (/\ Latest(p) /\ pc[p] \in Finished /\ kind[p] = "Close"
         /\ closeErr[p] /= Nil /\ HasSlot(p) /\ IfaceIsNil(before[p]))
            => /\ pc[p] = "done"
               /\ Coherent(Slot)
               /\ Slot.data.msg =
                      "failed to close " \o resourceName[p] \o ": " \o closeErr[p].msg
               /\ Is(Slot.data, closeErr[p])

C3_Witness ==
    \E p \in DOMAIN pc :
        /\ Latest(p) /\ pc[p] = "done" /\ kind[p] = "Close"
        /\ closeErr[p] /= Nil /\ HasSlot(p) /\ IfaceIsNil(before[p])
        /\ Slot.data.msg = "failed to close file: close error"

\* C4: Close with a failing release R on an outcome holding E leaves a failure
\* whose message is "<E message> (and failed to close <name>: <R message>)"
\* and for which errors.Is finds E and finds R.
C4_CloseOnExistingOutcome ==
    \A p \in DOMAIN pc :
        (/\ Latest(p) /\ pc[p] \in Finished /\ kind[p] = "Close"
         /\ closeErr[p] /= Nil /\ HasSlot(p) /\ ~IfaceIsNil(before[p]))
            => /\ pc[p] = "done"
               /\ Coherent(Slot)
               /\ Slot.data.msg =
                      before[p].data.msg \o " (and failed to close " \o resourceName[p]
                      \o ": " \o closeErr[p].msg \o ")"
               /\ Is(Slot.data, before[p].data)
               /\ Is(Slot.data, closeErr[p])

C4_Witness ==
    \E p \in DOMAIN pc :
        /\ Latest(p) /\ pc[p] = "done" /\ kind[p] = "Close"
        /\ closeErr[p] /= Nil /\ HasSlot(p) /\ before[p] = Iface(errFallibleOperation)
        /\ Slot.data.msg = "operation failed (and failed to close file: close error)"

\* C5: Closef formats the resource name not at all when the release succeeds
\* and exactly once when it fails, and only after resource.Close has returned
\* that failure.
C5_LazyFormatting ==
    \A p \in DOMAIN pc :
        kind[p] = "Closef"
            => /\ sprintfCalls[p] > 0 => resource[p].closeCalls = 1 /\ closeErr[p] /= Nil
               /\ pc[p] \in Finished
                      => sprintfCalls[p] = (IF closeErr[p] = Nil THEN 0 ELSE 1)

C5_Witness ==
    \E p, q \in DOMAIN pc :
        /\ kind[p] = "Closef" /\ pc[p] = "done" /\ closeErr[p] = Nil
        /\ sprintfCalls[p] = 0
        /\ kind[q] = "Closef" /\ pc[q] = "done" /\ closeErr[q] /= Nil
        /\ sprintfCalls[q] = 1
        /\ resourceName[q] = "file at path /example/path"

\* C7: once the deferred calls on one error variable have run, errors.Is
\* finds in the outcome the failure the variable held before the first call
\* and every failure a resource.Close returned.
C7_NoFailureDropped ==
    (Quiescent /\ \A p \in DOMAIN pc : HasSlot(p))
        => /\ Coherent(Slot)
           /\ ~IfaceIsNil(initialErr) => Is(Slot.data, initialErr.data)
           /\ \A p \in DOMAIN pc :
                  (pc[p] /= "idle" /\ closeErr[p] /= Nil)
                      => pc[p] = "done" /\ Is(Slot.data, closeErr[p])

C7_Witness ==
    /\ Quiescent
    /\ Len(hist) = MaxCalls
    /\ initialErr = Iface(errFallibleOperation)
    /\ \A p \in DOMAIN pc : HasSlot(p) /\ pc[p] = "done" /\ Is(Slot.data, closeErr[p])
    /\ Is(Slot.data, errFallibleOperation)

\* C8 as stated: no invocation of Close or Closef ever panics, whatever the
\* resource, the outcome reference (a nil pointer included) and the name.
C8_NeverFails ==
    \A p \in DOMAIN pc : pc[p] \notin {"panic", "fault"}

\* C8 as amended: an invocation given a pointer to an error variable always
\* returns normally; given a nil pointer it returns normally when the release
\* succeeds and panics, after the release, when it fails.  An invocation that
\* changes the outcome had a failing release, and errors.Is finds that
\* failure in the new outcome.
C8_FailsOnlyOnNilReference ==
    \A p \in DOMAIN pc :
        /\ pc[p] /= "fault"
        /\ pc[p] = "panic"
               => returnedErr[p] = "nil" /\ closeErr[p] /= Nil
                  /\ resource[p].closeCalls = 1
        /\ (pc[p] = "done" /\ closeErr[p] /= Nil) => HasSlot(p)
        /\ (Latest(p) /\ pc[p] = "done" /\ Deref(returnedErr[p]) /= before[p])
               => /\ closeErr[p] /= Nil
                  /\ Is(Value(Slot), closeErr[p])

C8_Witness ==
    \E p, q \in DOMAIN pc :
        /\ pc[p] = "panic" /\ returnedErr[p] = "nil" /\ closeErr[p] /= Nil
        /\ pc[q] = "done" /\ returnedErr[q] = "nil" /\ closeErr[q] = Nil

RECURSIVE Suffixes(_)
Suffixes(h) ==
    IF h = <<>> THEN ""
    ELSE " (and failed to close " \o resourceName[Head(h)] \o ": "
         \o closeErr[Head(h)].msg \o ")" \o Suffixes(Tail(h))

\* C9: once the deferred calls on one error variable have run, with failing
\* releases (n1, R1), ..., (nk, Rk) in invocation order, the message is the
\* initial message E followed by " (and failed to close ni: Ri)" for i = 1..k
\* when E existed, and "failed to close n1: R1" followed by those suffixes for
\* i = 2..k when the variable started nil; with no failing release the
\* variable is as it started.
C9_RepeatedMerge ==
    (Quiescent /\ \A p \in DOMAIN pc : HasSlot(p))
        => IF hist = <<>> THEN Slot = initialErr
           ELSE /\ Coherent(Slot)
                /\ Slot.data.msg =
                       IF ~IfaceIsNil(initialErr)
                       THEN initialErr.data.msg \o Suffixes(hist)
                       ELSE "failed to close " \o resourceName[Head(hist)] \o ": "
                            \o closeErr[Head(hist)].msg \o Suffixes(Tail(hist))

C9_Witness ==
    /\ Quiescent
    /\ \A p \in DOMAIN pc : HasSlot(p) /\ pc[p] = "done"
    /\ hist = <<1, 3>>
    /\ kind = <<"Close", "Close", "Closef">>
    /\ Slot.data.msg = "failed to close db: close error"
           \o " (and failed to close file at path /example/path: close error)"

(***************************************************************************)
(* Properties of Closef beside Close (SpecEquiv)                           *)
(***************************************************************************)

BothFinished == pc[1] \in Finished /\ pc[2] \in Finished

\* Closef and Close ended the same way, with the same outcome and as many
\* release calls.
SameOutcome ==
    /\ pc[1] = pc[2]
    /\ slots["errC"] = slots["errF"]
    /\ resource[1].closeCalls = resource[2].closeCalls

\* Formatting the arguments gives the same text before and after the close.
StableArgs ==
    LET file == mockFile(resource[2].closeError)
    IN  Sprintf(resourceNameFormat[2], formatArgs[2], file)
            = Sprintf(resourceNameFormat[2], formatArgs[2], MockClose(file))

\* C6 as stated: for every release result, prior outcome, format and
\* arguments, Closef leaves the outcome reference and the number of release
\* calls exactly as Close with the name formatted beforehand does.
C6_ClosefEquivalentToClose == BothFinished => SameOutcome

\* C6 as amended: the same, for arguments whose formatted text is the same
\* before and after the resource is closed.
C6_EquivalentForStableArgs == (BothFinished /\ StableArgs) => SameOutcome

C6_Witness ==
    /\ BothFinished /\ StableArgs /\ SameOutcome
    /\ pc[2] = "done" /\ closeErr[2] /= Nil
    /\ slots["errF"].data.msg =
           "operation failed (and failed to close file at path /example/path: close error)"

(***************************************************************************)
(* Properties of goroutines sharing an error variable (SpecConc)           *)
(***************************************************************************)

AllFinished == \A p \in DOMAIN pc : pc[p] \in Finished

\* C10: when the invocations' read-modify-writes of the shared outcome did
\* not overlap, errors.Is finds every release failure in the final outcome;
\* when two invocations with failing releases both read the outcome before
\* either wrote it, the final outcome lacks at least one of their two
\* failures.
C10_LostUpdateOnlyWhenOverlapping ==
    AllFinished
        => /\ ~overlapped
                  => /\ Coherent(Slot)
                     /\ \A p \in DOMAIN pc :
                            closeErr[p] /= Nil => Is(Slot.data, closeErr[p])
           /\ \A p, q \in DOMAIN pc :
                  ({p, q} \in raced /\ ~Confused(Slot))
                      => ~(Is(Value(Slot), closeErr[p]) /\ Is(Value(Slot), closeErr[q]))

C10_Witness ==
    /\ AllFinished
    /\ \A p \in DOMAIN pc : pc[p] = "done" /\ closeErr[p] /= Nil
    /\ raced /= {}
    /\ Coherent(Slot)
    /\ \E p \in DOMAIN pc : ~Is(Slot.data, closeErr[p])

====
